---- MODULE Spec2Model ----
(***************************************************************************)
(* Model of seeds/user_seed.py: one run of seed_users(count) against the   *)
(* users table, with the Faker unique-value proxy, the pydantic validation *)
(* of each candidate, the bcrypt hashing of the peppered password, the     *)
(* SQLAlchemy session (flush of the INSERTs, COMMIT, rollback, close) and  *)
(* one other client of the same table that may commit rows at any time.    *)
(***************************************************************************)
EXTENDS Integers, Sequences, FiniteSets, TLC

\* ---- bounds of the model ----
MaxCount == 2       \* largest --number argument tried
MaxPre == 1         \* most rows in the table before the run
MaxOther == 1       \* most rows the other client commits

\* ---- value spaces Faker draws from ----
\* "not-an-email" stands for a candidate address that EmailStr rejects.
Emails == {"a@x.com", "b@x.com", "c@x.com", "not-an-email"}
Usernames == {"u1", "u2", "u3"}
Passwords == {<<"pw1">>, <<"pw2">>}
BcryptSalts == {"r1", "r2"}
NoValue == "<none>"

VARIABLES
    count,              \* the count argument of seed_users
    pc,                 \* position of the run inside seed_users
    session,            \* "none", "open" or "closed"
    exc,                \* class of the exception raised in the run, or "none"
    printed,            \* the categorized message an except branch printed
    store,              \* committed rows of the users table
    pending,            \* rows INSERTed by the session's open transaction
    existing_emails,    \* the duplicate index (local sets of seed_users)
    existing_usernames,
    users_to_add,       \* the buffered User objects
    flushed,            \* how many of users_to_add the flush has INSERTed
    seenE,              \* values fake.unique.email() has handed out
    seenU,              \* values fake.unique.user_name() has handed out
    store0,             \* history: the table when the run began
    loadedRows,         \* history: the table when the index was loaded
    otherN              \* rows committed by the other client so far

vars == <<count, pc, session, exc, printed, store, pending, existing_emails,
          existing_usernames, users_to_add, flushed, seenE, seenU, store0,
          loadedRows, otherN>>

\* ---- pure helpers ----

\* settings.salt, the configuration-level pepper
Pepper == <<"SALT">>

\* pwd_context.hash: a bcrypt string, scheme marker, per-call salt, digest
bcrypt_hash(secret, r) == <<"$2b$", r>> \o secret

hash_password_plain(plain_password, salt, r) == plain_password

\* hash_password(plain_password, salt); r is bcrypt's internal random salt
hash_password(plain_password, salt, r) == bcrypt_hash(plain_password \o salt, r)

\* EmailStr validation of UserData.email
ValidEmail(e) == e # "not-an-email"

AcceptableEither(e, u, E, U) == e \notin E \/ u \notin U

\* the acceptance test of generate_fake_user
Acceptable(e, u, E, U) == e \notin E /\ u \notin U

\* the User row built from an accepted candidate
User(e, u, pw, who) == [email |-> e, username |-> u, password |-> pw, owner |-> who]

\* the unique constraints on users.email and users.username
UniqueViolation(row, rows) ==
    \E r \in rows : r.email = row.email \/ r.username = row.username

\* number of iterations of `for i in range(1, count + 1)`
LoopBound(n) == IF n > 0 THEN n ELSE 0

\* which except branch of seed_users handles an exception class
Category(e) ==
    IF e = "IntegrityError" THEN "Integrity Error:"
    ELSE IF e = "ValidationError" THEN "Validation Error:"
    ELSE "An unexpected error occurred:"

\* the state of the batch committer at a position of the run
PhaseOf(p) ==
    CASE p = "query" -> "empty"
      [] p = "generate" -> "accumulating"
      [] p = "flush" -> "submitted"
      [] p = "committed" -> "committed"
      [] p = "rolled_back" -> "rolled_back"
      [] p = "returned" -> "closed"
      [] OTHER -> "no_session"

Phase == PhaseOf(pc)

SeedRows(rows) == {r \in rows : r.owner = "seed"}
EmailsOf(rows) == {r.email : r \in rows}
UsernamesOf(rows) == {r.username : r \in rows}
Buffered == {users_to_add[i] : i \in 1..Len(users_to_add)}

\* ---- initial states ----

\* rows the table may hold before the run
PreRows == {User(p[1], p[2], bcrypt_hash(<<"old">> \o Pepper, "r1"), "pre") :
                p \in {<<"a@x.com", "u1">>, <<"b@x.com", "u2">>,
                       <<"c@x.com", "u3">>}}

TableOK(rows) ==
    \A r1, r2 \in rows :
        (r1.email = r2.email \/ r1.username = r2.username) => r1 = r2

Init ==
    /\ count \in (0 - 1)..MaxCount
    /\ store \in {S \in SUBSET PreRows : Cardinality(S) <= MaxPre /\ TableOK(S)}
    /\ store0 = store
    /\ pc = "create_all"
    /\ session = "none"
    /\ exc = "none"
    /\ printed = "none"
    /\ pending = {}
    /\ existing_emails = {}
    /\ existing_usernames = {}
    /\ users_to_add = <<>>
    /\ flushed = 0
    /\ seenE = {}
    /\ seenU = {}
    /\ loadedRows = {}
    /\ otherN = 0

\* ---- the except branches: session.rollback() and the printed message ----

RaiseNarrow(e) ==
    /\ exc' = e
    /\ pending' = {}
    /\ printed' = IF e \in {"IntegrityError", "ValidationError"}
                  THEN Category(e) ELSE printed
    /\ pc' = IF e \in {"IntegrityError", "ValidationError"}
             THEN "rolled_back" ELSE "raised"

Raise(e) ==
    /\ exc' = e
    /\ pending' = {}
    /\ printed' = Category(e)
    /\ pc' = "rolled_back"

\* ---- seed_users, step by step ----

\* Base.metadata.create_all(engine); session = Session()
CreateAll ==
    /\ pc = "create_all"
    /\ pc' = "query"
    /\ session' = "open"
    /\ UNCHANGED <<count, exc, printed, store, pending, existing_emails,
                   existing_usernames, users_to_add, flushed, seenE, seenU,
                   store0, loadedRows, otherN>>

\* create_all fails (the database is unreachable): it is outside the try
CreateAllFault ==
    /\ pc = "create_all"
    /\ pc' = "raised"
    /\ exc' = "OperationalError"
    /\ UNCHANGED <<count, session, printed, store, pending, existing_emails,
                   existing_usernames, users_to_add, flushed, seenE, seenU,
                   store0, loadedRows, otherN>>

\* the two session.query(...).all() calls and users_to_add = []
QueryIndex ==
    /\ pc = "query"
    /\ existing_emails' = EmailsOf(store)
    /\ existing_usernames' = UsernamesOf(store)
    /\ loadedRows' = store
    /\ users_to_add' = <<>>
    /\ pc' = "generate"
    /\ UNCHANGED <<count, session, exc, printed, store, pending, flushed,
                   seenE, seenU, store0, otherN>>

\* a query fails inside the try
QueryFault ==
    /\ pc = "query"
    /\ Raise("OperationalError")
    /\ UNCHANGED <<count, session, store, existing_emails, existing_usernames,
                   users_to_add, flushed, seenE, seenU, store0, loadedRows,
                   otherN>>

InLoop == pc = "generate" /\ Len(users_to_add) < LoopBound(count)

RedrawRegisters ==
    /\ InLoop
    /\ \E e \in Emails \ seenE, u \in Usernames \ seenU :
        /\ ValidEmail(e)
        /\ ~Acceptable(e, u, existing_emails, existing_usernames)
        /\ seenE' = seenE \cup {e}
        /\ seenU' = seenU \cup {u}
        /\ existing_emails' = existing_emails \cup {e}
        /\ existing_usernames' = existing_usernames \cup {u}
    /\ UNCHANGED <<count, pc, session, exc, printed, store, pending,
                   users_to_add, flushed, store0, loadedRows, otherN>>

\* one iteration of generate_fake_user's while loop whose candidate collides
\* with the duplicate index: both unique values are used up, nothing else
Redraw ==
    /\ InLoop
    /\ \E e \in Emails \ seenE, u \in Usernames \ seenU :
        /\ ValidEmail(e)
        /\ ~Acceptable(e, u, existing_emails, existing_usernames)
        /\ seenE' = seenE \cup {e}
        /\ seenU' = seenU \cup {u}
    /\ UNCHANGED <<count, pc, session, exc, printed, store, pending,
                   existing_emails, existing_usernames, users_to_add, flushed,
                   store0, loadedRows, otherN>>

GenerateUserEager ==
    /\ InLoop
    /\ \E e \in Emails \ seenE, u \in Usernames \ seenU,
          pw \in Passwords, r \in BcryptSalts :
        /\ ValidEmail(e)
        /\ Acceptable(e, u, existing_emails, existing_usernames)
        /\ seenE' = seenE \cup {e}
        /\ seenU' = seenU \cup {u}
        /\ existing_emails' = existing_emails \cup {e}
        /\ existing_usernames' = existing_usernames \cup {u}
        /\ users_to_add' =
              Append(users_to_add, User(e, u, hash_password(pw, Pepper, r), "seed"))
        /\ pending' =
              pending \cup {User(e, u, hash_password(pw, Pepper, r), "seed")}
    /\ UNCHANGED <<count, pc, session, exc, printed, store, flushed,
                   store0, loadedRows, otherN>>

\* the iteration that accepts: the index grows, the password is hashed and
\* the User is appended to users_to_add
GenerateUser ==
    /\ InLoop
    /\ \E e \in Emails \ seenE, u \in Usernames \ seenU,
          pw \in Passwords, r \in BcryptSalts :
        /\ ValidEmail(e)
        /\ Acceptable(e, u, existing_emails, existing_usernames)
        /\ seenE' = seenE \cup {e}
        /\ seenU' = seenU \cup {u}
        /\ existing_emails' = existing_emails \cup {e}
        /\ existing_usernames' = existing_usernames \cup {u}
        /\ users_to_add' =
              Append(users_to_add, User(e, u, hash_password(pw, Pepper, r), "seed"))
    /\ UNCHANGED <<count, pc, session, exc, printed, store, pending, flushed,
                   store0, loadedRows, otherN>>

GenerateInvalidRedraw ==
    /\ InLoop
    /\ \E e \in Emails \ seenE, u \in Usernames \ seenU :
        /\ ~ValidEmail(e)
        /\ seenE' = seenE \cup {e}
        /\ seenU' = seenU \cup {u}
    /\ UNCHANGED <<count, pc, session, exc, printed, store, pending,
                   existing_emails, existing_usernames, users_to_add, flushed,
                   store0, loadedRows, otherN>>

\* UserData(...) raises ValidationError: nothing in generate_fake_user
\* catches it, so it reaches the except branch of seed_users
GenerateInvalid ==
    /\ InLoop
    /\ \E e \in Emails \ seenE, u \in Usernames \ seenU :
        /\ ~ValidEmail(e)
        /\ seenE' = seenE \cup {e}
        /\ seenU' = seenU \cup {u}
    /\ Raise("ValidationError")
    /\ UNCHANGED <<count, session, store, existing_emails, existing_usernames,
                   users_to_add, flushed, store0, loadedRows, otherN>>

\* fake.unique finds no value it has not handed out: UniquenessException.
\* The email is drawn before the username, so it is used up when only the
\* usernames have run out.
GenerateExhausted ==
    /\ InLoop
    /\ \E e \in (IF Emails \ seenE = {} THEN {NoValue} ELSE Emails \ seenE) :
        /\ e = NoValue \/ Usernames \ seenU = {}
        /\ seenE' = IF e = NoValue THEN seenE ELSE seenE \cup {e}
    /\ Raise("UniquenessException")
    /\ UNCHANGED <<count, session, store, existing_emails, existing_usernames,
                   users_to_add, flushed, seenU, store0, loadedRows, otherN>>

AddAllEarly ==
    /\ pc = "generate"
    /\ Len(users_to_add) >= LoopBound(count) - 1
    /\ pc' = "flush"
    /\ flushed' = 0
    /\ UNCHANGED <<count, session, exc, printed, store, pending,
                   existing_emails, existing_usernames, users_to_add, seenE,
                   seenU, store0, loadedRows, otherN>>

\* the for loop is over: session.add_all(users_to_add)
AddAll ==
    /\ pc = "generate"
    /\ Len(users_to_add) = LoopBound(count)
    /\ pc' = "flush"
    /\ flushed' = 0
    /\ UNCHANGED <<count, session, exc, printed, store, pending,
                   existing_emails, existing_usernames, users_to_add, seenE,
                   seenU, store0, loadedRows, otherN>>

FlushInsertAutocommit ==
    /\ pc = "flush"
    /\ flushed < Len(users_to_add)
    /\ ~UniqueViolation(users_to_add[flushed + 1], store)
    /\ store' = store \cup {users_to_add[flushed + 1]}
    /\ flushed' = flushed + 1
    /\ UNCHANGED <<count, pc, session, exc, printed, pending, existing_emails,
                   existing_usernames, users_to_add, seenE, seenU, store0,
                   loadedRows, otherN>>

FlushInsertUnchecked ==
    /\ pc = "flush"
    /\ flushed < Len(users_to_add)
    /\ pending' = pending \cup {users_to_add[flushed + 1]}
    /\ flushed' = flushed + 1
    /\ UNCHANGED <<count, pc, session, exc, printed, store, existing_emails,
                   existing_usernames, users_to_add, seenE, seenU, store0,
                   loadedRows, otherN>>

\* session.commit(), the flush: the INSERT of the next buffered row succeeds
FlushInsert ==
    /\ pc = "flush"
    /\ flushed < Len(users_to_add)
    /\ ~UniqueViolation(users_to_add[flushed + 1], store)
    /\ pending' = pending \cup {users_to_add[flushed + 1]}
    /\ flushed' = flushed + 1
    /\ UNCHANGED <<count, pc, session, exc, printed, store, existing_emails,
                   existing_usernames, users_to_add, seenE, seenU, store0,
                   loadedRows, otherN>>

\* session.commit(), the flush: the INSERT hits a unique constraint
FlushConflict ==
    /\ pc = "flush"
    /\ flushed < Len(users_to_add)
    /\ UniqueViolation(users_to_add[flushed + 1], store)
    /\ Raise("IntegrityError")
    /\ UNCHANGED <<count, session, store, existing_emails, existing_usernames,
                   users_to_add, flushed, seenE, seenU, store0, loadedRows,
                   otherN>>

\* session.commit(), the COMMIT: the transaction's rows become visible
Commit ==
    /\ pc = "flush"
    /\ flushed = Len(users_to_add)
    /\ store' = store \cup pending
    /\ pending' = {}
    /\ pc' = "committed"
    /\ UNCHANGED <<count, session, exc, printed, existing_emails,
                   existing_usernames, users_to_add, flushed, seenE, seenU,
                   store0, loadedRows, otherN>>

\* session.commit() fails for another reason (the connection is lost)
CommitFault ==
    /\ pc = "flush"
    /\ Raise("OperationalError")
    /\ UNCHANGED <<count, session, store, existing_emails, existing_usernames,
                   users_to_add, flushed, seenE, seenU, store0, loadedRows,
                   otherN>>

CloseOnSuccessOnly ==
    /\ pc = "committed"
    /\ session' = "closed"
    /\ pc' = "returned"
    /\ UNCHANGED <<count, exc, printed, store, pending, existing_emails,
                   existing_usernames, users_to_add, flushed, seenE, seenU,
                   store0, loadedRows, otherN>>

\* finally: session.close()
Close ==
    /\ pc \in {"committed", "rolled_back"}
    /\ session' = "closed"
    /\ pc' = "returned"
    /\ UNCHANGED <<count, exc, printed, store, pending, existing_emails,
                   existing_usernames, users_to_add, flushed, seenE, seenU,
                   store0, loadedRows, otherN>>

\* ---- the other client of the users table ----

\* the (email, username) pairs it may insert
OtherPairs == {<<"a@x.com", "u3">>, <<"b@x.com", "u1">>, <<"c@x.com", "u2">>}

\* while the run is under way it commits one row; the table's unique
\* constraints apply to it too, and an INSERT that meets a row of the
\* session's open transaction cannot commit
OtherWriterInsert ==
    /\ otherN < MaxOther
    /\ pc \notin {"returned", "raised"}
    /\ \E p \in OtherPairs :
        LET row == User(p[1], p[2], bcrypt_hash(<<"old">> \o Pepper, "r1"), "other")
        IN  /\ ~UniqueViolation(row, store \cup pending)
            /\ store' = store \cup {row}
    /\ otherN' = otherN + 1
    /\ UNCHANGED <<count, pc, session, exc, printed, pending, existing_emails,
                   existing_usernames, users_to_add, flushed, seenE, seenU,
                   store0, loadedRows>>

\* ---- specifications ----

SeederNext ==
    \/ CreateAll
    \/ CreateAllFault
    \/ QueryIndex
    \/ QueryFault
    \/ Redraw
    \/ GenerateUser
    \/ GenerateInvalid
    \/ GenerateExhausted
    \/ AddAll
    \/ FlushInsert
    \/ FlushConflict
    \/ Commit
    \/ CommitFault
    \/ Close

Next == SeederNext \/ OtherWriterInsert

Spec == Init /\ [][Next]_vars

\* the run is the one thread of control: it keeps taking its next step
FairSpec == Spec /\ WF_vars(SeederNext)

\* ---- properties ----

Categories == {"Integrity Error:", "Validation Error:",
               "An unexpected error occurred:"}

NotOthers(rows) == {r \in rows : r.owner # "other"}

\* a step of the run (not of the other client)
SeederStep == <<pc, users_to_add, seenE, seenU, exc, flushed>>' #
              <<pc, users_to_add, seenE, seenU, exc, flushed>>

\* a whole candidate (email and username) was drawn in this step
DrewCandidate == seenE' # seenE /\ seenU' # seenU
DrewMalformed == DrewCandidate /\ \E e \in seenE' \ seenE : ~ValidEmail(e)
DrewCollision ==
    /\ DrewCandidate
    /\ \E e \in seenE' \ seenE, u \in seenU' \ seenU :
        ValidEmail(e) /\ (e \in existing_emails \/ u \in existing_usernames)

\* C1: the buffered records have pairwise distinct emails and pairwise
\* distinct usernames, and none of them equals an email or username that
\* was in the table when the duplicate index was loaded.
C1_BatchUnique ==
    /\ \A i, j \in 1..Len(users_to_add) :
          i # j => /\ users_to_add[i].email # users_to_add[j].email
                   /\ users_to_add[i].username # users_to_add[j].username
    /\ \A i \in 1..Len(users_to_add) :
          /\ users_to_add[i].email \notin EmailsOf(loadedRows)
          /\ users_to_add[i].username \notin UsernamesOf(loadedRows)

\* C1 witness: two records buffered next to a loaded row, after a re-draw
C1_Witness ==
    /\ Len(users_to_add) = 2
    /\ loadedRows # {}
    /\ Cardinality(seenE) > 2

\* C2: once a step of the run has failed after the session was opened, the
\* table holds the rows it held before the run (and whatever the other
\* client committed): no record of the batch is persisted.
C2_FailureLeavesStore ==
    (session # "none" /\ exc # "none") =>
        /\ SeedRows(store) = {}
        /\ NotOthers(store) = store0
        /\ pending = {}

\* C2 witness: the INSERT of the last record failed after the first went in
C2_Witness ==
    /\ pc = "returned"
    /\ exc = "IntegrityError"
    /\ Len(users_to_add) = 2
    /\ flushed = 1

\* C3: a run with count >= 0 that committed has added exactly count rows,
\* the buffered ones, each with a bcrypt digest of password + pepper and
\* not the plaintext, with count distinct emails and count distinct usernames.
C3_CommitAddsN ==
    (pc \in {"committed", "returned"} /\ exc = "none" /\ count >= 0) =>
        LET S == SeedRows(store) IN
        /\ Cardinality(S) = count
        /\ S = Buffered
        /\ NotOthers(store) \ S = store0
        /\ Cardinality(EmailsOf(S)) = count
        /\ Cardinality(UsernamesOf(S)) = count
        /\ \A r \in S :
              /\ r.password \notin Passwords
              /\ r.password[1] = "$2b$"
              /\ \E pw \in Passwords :
                    SubSeq(r.password, 3, Len(r.password)) = pw \o Pepper

\* C3 witness: an empty table ends with exactly two rows
C3_Witness ==
    /\ pc = "returned"
    /\ exc = "none"
    /\ count = 2
    /\ store0 = {}
    /\ Cardinality(store) = 2

\* C4: every run that opens a session eventually closes it.
C4_EventuallyClosed == (session = "open") ~> (session = "closed")

\* C4 witness: the session was closed after a rollback
C4_Witness == session = "closed" /\ exc # "none" /\ pc = "returned"

\* the batch, once submitted, meets a row the other client committed
RaceCase ==
    /\ pc \in {"committed", "rolled_back", "returned"}
    /\ exc \in {"none", "IntegrityError"}
    /\ \E i \in 1..Len(users_to_add) : \E r \in store :
          /\ r.owner = "other"
          /\ \/ r.email = users_to_add[i].email
             \/ r.username = users_to_add[i].username

\* C5: when the other client has committed an email or username of the
\* submitted batch (and the commit did not fail for another reason), the run
\* ends with the IntegrityError caught and reported and the batch rolled
\* back: it does not raise, no record of the batch is in the table, and the
\* other client's rows stay.
C5_RaceRolledBack ==
    /\ [](RaceCase =>
            /\ exc = "IntegrityError"
            /\ printed = "Integrity Error:"
            /\ pc \in {"rolled_back", "returned"}
            /\ SeedRows(store) = {}
            /\ pending = {})
    /\ [][\A r \in store : r.owner = "other" => r \in store']_vars

\* C5 witness: the run returned after the race was caught
C5_Witness == RaceCase /\ pc = "returned" /\ session = "closed"

\* C6 as stated: a candidate that fails validation is re-drawn, the run goes
\* on and no exception reaches seed_users.
C6_Original ==
    [][DrewMalformed => (pc' = "generate" /\ exc' = "none")]_vars

\* C6 amended: a candidate that fails validation raises ValidationError out
\* of generate_fake_user; seed_users catches it, rolls back and reports it,
\* with the index and the table as they were. Only a valid candidate that
\* collides with the duplicate index is re-drawn.
C6_ValidationEndsRun ==
    /\ [][DrewMalformed =>
            /\ exc' = "ValidationError"
            /\ pc' = "rolled_back"
            /\ printed' = "Validation Error:"
            /\ pending' = {}
            /\ UNCHANGED <<store, existing_emails, existing_usernames,
                           users_to_add>>]_vars
    /\ [][DrewCollision =>
            /\ pc' = "generate"
            /\ exc' = "none"
            /\ UNCHANGED <<store, existing_emails, existing_usernames,
                           users_to_add>>]_vars

\* C6 witness: the run was rolled back on a ValidationError
C6_Witness ==
    /\ exc = "ValidationError"
    /\ pc = "rolled_back"
    /\ "not-an-email" \in seenE

\* C7 as stated: no failure from schema creation onward leaves seed_users
\* uncaught; each is reported with a category and nothing is committed.
C7_Original ==
    exc # "none" =>
        /\ pc # "raised"
        /\ printed \in Categories
        /\ SeedRows(store) = {}

\* C7 amended: every failure after the session is opened (the index queries,
\* the generation, the commit) is caught, reported with its category and
\* leaves nothing of the batch committed; a failure of create_all is not
\* caught: it leaves seed_users with no session opened, nothing printed and
\* nothing committed.
C7_CaughtAfterSession ==
    /\ (exc # "none" /\ session # "none") =>
          /\ pc \in {"rolled_back", "returned"}
          /\ exc = "IntegrityError" => printed = "Integrity Error:"
          /\ exc = "ValidationError" => printed = "Validation Error:"
          /\ exc \notin {"IntegrityError", "ValidationError"} =>
                printed = "An unexpected error occurred:"
          /\ SeedRows(store \cup pending) = {}
    /\ pc = "raised" =>
          /\ session = "none"
          /\ exc = "OperationalError"
          /\ printed = "none"
          /\ SeedRows(store \cup pending) = {}

\* C7 witness: a failed index query was caught and the run returned
C7_Witness ==
    /\ pc = "returned"
    /\ exc = "OperationalError"
    /\ count = 2
    /\ users_to_add = <<>>

PathSteps ==
    {<<"no_session", "no_session">>, <<"no_session", "empty">>,
     <<"empty", "accumulating">>, <<"accumulating", "accumulating">>,
     <<"accumulating", "submitted">>, <<"submitted", "submitted">>,
     <<"submitted", "committed">>, <<"submitted", "rolled_back">>,
     <<"committed", "closed">>, <<"rolled_back", "closed">>}

\* C8 as stated: the committer only moves along empty -> accumulating ->
\* submitted -> {committed, rolled_back} -> closed.
C8_Original ==
    [][SeederStep => <<PhaseOf(pc), PhaseOf(pc')>> \in PathSteps]_vars

\* C8 amended: the committer moves along that path, except that rolled_back
\* is also entered from empty (a failed index query) and from accumulating
\* (a validation failure or a generator fault); the commit is attempted only
\* with all the records accumulated and submitted, and closed comes only after
\* committed or rolled_back.
C8_PathWithEarlyRollback ==
    /\ [][SeederStep =>
            <<PhaseOf(pc), PhaseOf(pc')>> \in
                PathSteps \cup {<<"empty", "rolled_back">>,
                                <<"accumulating", "rolled_back">>}]_vars
    /\ [](Phase \in {"submitted", "committed"} =>
            Len(users_to_add) = LoopBound(count))
    /\ [](Phase = "committed" =>
            flushed = Len(users_to_add) /\ Buffered \subseteq store)

\* C8 witness: a rollback entered from accumulating
C8_Witness ==
    /\ pc = "rolled_back"
    /\ exc \in {"ValidationError", "UniquenessException"}
    /\ Len(users_to_add) = 1

\* C9: while the run accumulates records, up to and including add_all, it
\* writes nothing: its steps leave the table and the open transaction alone,
\* and no record of the batch is in either.
C9_NoWriteWhileAccumulating ==
    /\ [][(Phase = "accumulating" /\ SeederStep) =>
            UNCHANGED <<store, pending>>]_vars
    /\ [](Phase \in {"empty", "accumulating"} =>
            SeedRows(store \cup pending) = {})

\* C9 witness: all the records are buffered, none is written
C9_Witness ==
    /\ pc = "generate"
    /\ Len(users_to_add) = 2
    /\ store # {}

\* C10: the duplicate index only grows; a rejected candidate adds nothing, an
\* accepted one adds exactly its email and its username, so the two sets are
\* the loaded values plus the emails and usernames of the accepted records.
C10_IndexGrows ==
    /\ [](/\ existing_emails = EmailsOf(loadedRows) \cup EmailsOf(Buffered)
          /\ existing_usernames =
                UsernamesOf(loadedRows) \cup UsernamesOf(Buffered)
          /\ Cardinality(EmailsOf(Buffered)) = Len(users_to_add)
          /\ Cardinality(UsernamesOf(Buffered)) = Len(users_to_add))
    /\ [][/\ existing_emails \subseteq existing_emails'
          /\ existing_usernames \subseteq existing_usernames'
          /\ (pc = "generate" /\ users_to_add' = users_to_add) =>
                UNCHANGED <<existing_emails, existing_usernames>>
          /\ (pc = "generate" /\ users_to_add' # users_to_add) =>
                LET new == users_to_add'[Len(users_to_add')] IN
                /\ Len(users_to_add') = Len(users_to_add) + 1
                /\ existing_emails' = existing_emails \cup {new.email}
                /\ existing_usernames' = existing_usernames \cup {new.username}
                /\ new.email \notin existing_emails
                /\ new.username \notin existing_usernames]_vars

\* C10 witness: two accepted records and a rejected candidate
C10_Witness ==
    /\ pc = "generate"
    /\ Len(users_to_add) = 2
    /\ Cardinality(seenU) > 2
    /\ loadedRows # {}

====
